---- MODULE Spec2Model ----
(***************************************************************************)
(* A model of scripts/data_preparation.py: the air-monitor pipeline        *)
(*   load_data -> clean_data -> convert_datetime_columns -> projection     *)
(*   -> identify_high_impact_events -> save_cleaned_data                   *)
(* together with the pandas operations the script calls, each modelled by  *)
(* what it does to a table of cells.                                       *)
(*                                                                         *)
(* Text is a sequence of one-character strings, so that parsing and        *)
(* formatting are computed and not assumed.  A cell is a record            *)
(*   [kind, n, ns, s]   kind \in int float nan str datetime NaT bool       *)
(* with n the number (or the date yyyymmdd of a datetime, or 0/1 of a      *)
(* bool), ns the nanoseconds past midnight of a datetime, s the text.      *)
(* A DataFrame is [kind, columns, rows]: the ordered column names and the  *)
(* ordered rows, each row a function from the column names to cells.       *)
(***************************************************************************)
EXTENDS Integers, Sequences, FiniteSets, TLC

VARIABLES
    pc,       \* position of the running script or call
    file,     \* the input file: [state, header, lines]
    df,       \* the table the caller holds (None before a load)
    ret,      \* value returned by the last call
    ret2,     \* value returned by a second call on ret (clean_data twice)
    exc,      \* exception that escaped to the caller ("none" if none)
    disk,     \* the output file: [state, header, lines]
    stdout,   \* lines printed so far
    trace,    \* names of the pipeline steps entered so far, in order
    nLoaded,  \* rows of the table load_data returned
    nCleaned, \* rows of the table clean_data returned
    arg,      \* the table as it was when a function was called directly
    args      \* the other arguments of the calls: [columns, column, threshold]

vars == <<pc, file, df, ret, ret2, exc, disk, stdout, trace, nLoaded, nCleaned, arg, args>>

----------------------------------------------------------------------------
(* Bounds of the model. *)

\* Most data lines in an input file of the pipeline.
MaxFileRows == 2

\* Most rows in a table handed directly to one function.
MaxRows == 3

----------------------------------------------------------------------------
(* Text *)

Range(s) == {s[i] : i \in 1..Len(s)}

DigitChars == <<"0", "1", "2", "3", "4", "5", "6", "7", "8", "9">>

IsDigit(ch) == \E i \in 1..10 : DigitChars[i] = ch

DigitVal(ch) == (CHOOSE i \in 1..10 : DigitChars[i] = ch) - 1

IsIntText(s) == Len(s) > 0 /\ \A i \in 1..Len(s) : IsDigit(s[i])

RECURSIVE ParseInt(_)
ParseInt(s) ==
    IF s = <<>> THEN 0
    ELSE 10 * ParseInt(SubSeq(s, 1, Len(s) - 1)) + DigitVal(s[Len(s)])

RECURSIVE FormatInt(_)
FormatInt(n) ==
    IF n < 10 THEN <<DigitChars[n + 1]>>
    ELSE Append(FormatInt(n \div 10), DigitChars[(n % 10) + 1])

\* n written with at least w digits (zero padded on the left)
RECURSIVE Pad(_, _)
Pad(s, w) == IF Len(s) >= w THEN s ELSE Pad(<<"0">> \o s, w)

----------------------------------------------------------------------------
(* Cells *)

Int64(n)    == [kind |-> "int",      n |-> n, ns |-> 0, s |-> <<>>]
Float64(n)  == [kind |-> "float",    n |-> n, ns |-> 0, s |-> <<>>]
NaN         == [kind |-> "nan",      n |-> 0, ns |-> 0, s |-> <<>>]
Str(s)      == [kind |-> "str",      n |-> 0, ns |-> 0, s |-> s]
Datetime(d, t) == [kind |-> "datetime", n |-> d, ns |-> t, s |-> <<>>]
NaT         == [kind |-> "NaT",      n |-> 0, ns |-> 0, s |-> <<>>]
Bool(b)     == [kind |-> "bool",     n |-> IF b THEN 1 ELSE 0, ns |-> 0, s |-> <<>>]

\* pandas.isna of one cell
isna(c) == c.kind \in {"nan", "NaT"}

IsNumber(c) == c.kind \in {"int", "float"}

----------------------------------------------------------------------------
(* DataFrames and Python results *)

None == [kind |-> "None", columns |-> <<>>, rows |-> <<>>]

DataFrame(columns, rows) == [kind |-> "DataFrame", columns |-> columns, rows |-> rows]

\* df.shape
shape(d) == <<Len(d.rows), Len(d.columns)>>

\* A call either returns val having printed out, or raises exc having
\* printed out and left val as the state of the argument it was mutating.
Return(v, out) == [exc |-> "none", val |-> v, out |-> out]
Raise(e, v, out) == [exc |-> e, val |-> v, out |-> out]

\* One printed line: its fixed text, the name formatted into it (a path or
\* an exception, "" if none) and the numbers formatted into it.
Line(text, name, nums) == [text |-> text, name |-> name, nums |-> nums]

----------------------------------------------------------------------------
(* pandas.read_csv and DataFrame.to_csv *)

TrueText  == <<"T", "r", "u", "e">>
FalseText == <<"F", "a", "l", "s", "e">>

\* Fields read_csv takes for a missing value: the empty field and the
\* spellings of its default na_values (these among them).
NaValues == {<<>>, <<"N", "A">>, <<"N", "a", "N">>, <<"n", "/", "a">>,
             <<"n", "u", "l", "l">>}

\* The dtype read_csv infers for a column from the texts of its fields:
\* integers only -> int64; integers and missing fields -> float64 (the
\* missing fields NaN); True/False only -> bool; anything else -> object
\* (the texts kept as strings, the missing fields NaN).
InferDtype(texts) ==
    IF \A i \in 1..Len(texts) : texts[i] \in NaValues \/ IsIntText(texts[i])
    THEN IF \E i \in 1..Len(texts) : texts[i] \in NaValues THEN "float" ELSE "int"
    ELSE IF \A i \in 1..Len(texts) : texts[i] \in {TrueText, FalseText}
    THEN "bool"
    ELSE "object"

ParseField(dtype, t) ==
    CASE dtype = "int"    -> Int64(ParseInt(t))
      [] dtype = "float"  -> IF t \in NaValues THEN NaN ELSE Float64(ParseInt(t))
      [] dtype = "bool"   -> Bool(t = TrueText)
      [] dtype = "object" -> IF t \in NaValues THEN NaN ELSE Str(t)

\* The table of a readable file: one row per data line, one column per
\* header field, each column parsed with its inferred dtype.
ParseTable(header, lines) ==
    LET dtype(j) == InferDtype([i \in 1..Len(lines) |-> lines[i][j]])
        idx(col) == CHOOSE j \in 1..Len(header) : header[j] = col
    IN  DataFrame(header,
                  [i \in 1..Len(lines) |->
                      [col \in Range(header) |->
                          ParseField(dtype(idx(col)), lines[i][idx(col)])]])

\* pd.read_csv(file_path): the exception it raises, or the table.
read_csv(f) ==
    CASE f.state = "absent"    -> Raise("FileNotFoundError", None, <<>>)
      [] f.state = "denied"    -> Raise("PermissionError", None, <<>>)
      [] f.state = "empty"     -> Raise("EmptyDataError", None, <<>>)
      [] f.state = "malformed" -> Raise("ParserError", None, <<>>)
      [] f.state = "ok"        -> Return(ParseTable(f.header, f.lines), <<>>)

\* yyyymmdd as YYYY-MM-DD
FormatDate(d) ==
    Pad(FormatInt(d \div 10000), 4) \o <<"-">> \o
    Pad(FormatInt((d \div 100) % 100), 2) \o <<"-">> \o
    Pad(FormatInt(d % 100), 2)

\* The text to_csv writes for one cell: a missing value is the empty field.
FormatField(c) ==
    CASE c.kind = "int"      -> FormatInt(c.n)
      [] c.kind = "float"    -> FormatInt(c.n) \o <<".", "0">>
      [] c.kind = "nan"      -> <<>>
      [] c.kind = "NaT"      -> <<>>
      [] c.kind = "str"      -> c.s
      [] c.kind = "bool"     -> IF c.n = 1 THEN TrueText ELSE FalseText
      [] c.kind = "datetime" ->
            IF c.ns = 0 THEN FormatDate(c.n)
            ELSE FormatDate(c.n) \o <<" ">> \o Pad(FormatInt(c.ns), 9)

\* The file contents df.to_csv(path, index=False) produces: the header
\* line and one line per row, no index field.
CsvOf(d) ==
    [state  |-> "ok",
     header |-> d.columns,
     lines  |-> [i \in 1..Len(d.rows) |->
                   [j \in 1..Len(d.columns) |-> FormatField(d.rows[i][d.columns[j]])]]]

NoFile == [state |-> "absent", header |-> <<>>, lines |-> <<>>]

\* df.to_csv(output_path, index=False) on a disk that answers with
\* outcome: the exception raised and the file left behind.  A write that
\* fails part way (disk full) leaves the lines written so far.
to_csv(d, outcome, old) ==
    CASE outcome = "ok" ->
            [exc |-> "none", disk |-> CsvOf(d)]
      [] outcome = "PermissionError" ->
            [exc |-> "PermissionError", disk |-> old]
      [] outcome = "FileNotFoundError" ->
            [exc |-> "FileNotFoundError", disk |-> old]
      [] outcome = "OSError" ->
            [exc |-> "OSError",
             disk |-> [CsvOf(d) EXCEPT !.state = "partial",
                                       !.lines = SubSeq(@, 1, Len(@) \div 2)]]

WriteOutcomes == {"ok", "PermissionError", "FileNotFoundError", "OSError"}

----------------------------------------------------------------------------
(* pandas.to_datetime(series, errors='coerce') *)

IsLeap(y) == (y % 4 = 0 /\ y % 100 # 0) \/ y % 400 = 0

DaysIn(y, m) ==
    IF m = 2 THEN (IF IsLeap(y) THEN 29 ELSE 28)
    ELSE IF m \in {4, 6, 9, 11} THEN 30 ELSE 31

\* The ISO date YYYY-MM-DD: ten characters, digits around two dashes,
\* a month of the year and a day of that month.
IsDateText(s) ==
    /\ Len(s) = 10
    /\ s[5] = "-" /\ s[8] = "-"
    /\ \A i \in {1, 2, 3, 4, 6, 7, 9, 10} : IsDigit(s[i])
    /\ LET y == ParseInt(SubSeq(s, 1, 4))
           m == ParseInt(SubSeq(s, 6, 7))
           d == ParseInt(SubSeq(s, 9, 10))
       IN  y >= 1 /\ m \in 1..12 /\ d \in 1..DaysIn(y, m)

DateOf(s) ==
    ParseInt(SubSeq(s, 1, 4)) * 10000 + ParseInt(SubSeq(s, 6, 7)) * 100
        + ParseInt(SubSeq(s, 9, 10))

\* to_datetime under errors='ignore': what does not parse is left as it is
to_datetime_ignore(c) ==
    CASE c.kind = "str"      -> IF IsDateText(c.s) THEN Datetime(DateOf(c.s), 0) ELSE c
      [] IsNumber(c)         -> Datetime(19700101, c.n)
      [] c.kind = "datetime" -> c
      [] OTHER               -> NaT

\* One cell under errors='coerce': a text that parses is its datetime, a
\* number is that many nanoseconds after the epoch (the model's numbers
\* are all below one day), a datetime stays, and everything else (a
\* missing value, a text that does not parse, a bool) is NaT.
to_datetime(c) ==
    CASE c.kind = "str"      -> IF IsDateText(c.s) THEN Datetime(DateOf(c.s), 0) ELSE NaT
      [] IsNumber(c)         -> Datetime(19700101, c.n)
      [] c.kind = "datetime" -> c
      [] OTHER               -> NaT

----------------------------------------------------------------------------
(* The DataFrame operations the script calls *)

HasColumns(d, cols) == \A i \in 1..Len(cols) : cols[i] \in Range(d.columns)

\* NotNullRows as a loop that deletes from the list it walks: after a
\* deletion the next row moves into the deleted place and is never looked at.
RECURSIVE NotNullRowsSkipping(_, _)
NotNullRowsSkipping(rows, subset) ==
    IF rows = <<>> THEN <<>>
    ELSE IF \E i \in 1..Len(subset) : isna(Head(rows)[subset[i]])
    THEN IF Len(rows) = 1 THEN <<>>
         ELSE <<rows[2]>> \o NotNullRowsSkipping(SubSeq(rows, 3, Len(rows)), subset)
    ELSE <<Head(rows)>> \o NotNullRowsSkipping(Tail(rows), subset)

\* The rows with no missing value in any column of subset, in order.
NotNullRows(rows, subset) ==
    SelectSeq(rows, LAMBDA r : \A i \in 1..Len(subset) : ~isna(r[subset[i]]))

\* dropna that refuses to return a table without rows
dropna_nonempty(d, subset) ==
    IF d.kind = "None" THEN Raise("AttributeError", d, <<>>)
    ELSE IF ~HasColumns(d, subset) THEN Raise("KeyError", d, <<>>)
    ELSE IF NotNullRows(d.rows, subset) = <<>> THEN Raise("ValueError", d, <<>>)
    ELSE Return(DataFrame(d.columns, NotNullRows(d.rows, subset)), <<>>)

\* df.dropna(subset=...): a new table; a name that is no column is a KeyError.
dropna(d, subset) ==
    IF d.kind = "None" THEN Raise("AttributeError", d, <<>>)
    ELSE IF ~HasColumns(d, subset) THEN Raise("KeyError", d, <<>>)
    ELSE Return(DataFrame(d.columns, NotNullRows(d.rows, subset)), <<>>)

\* KeepFirst that compares a row with the row before it only
RECURSIVE KeepFirstAdjacent(_, _)
KeepFirstAdjacent(rows, seen) ==
    IF rows = <<>> THEN <<>>
    ELSE IF Head(rows) \in seen THEN KeepFirstAdjacent(Tail(rows), seen)
    ELSE <<Head(rows)>> \o KeepFirstAdjacent(Tail(rows), {Head(rows)})

\* The first occurrence of every row, in order (keep='first'); rows are
\* duplicates when all their cells are equal, missing values included.
RECURSIVE KeepFirst(_, _)
KeepFirst(rows, seen) ==
    IF rows = <<>> THEN <<>>
    ELSE IF Head(rows) \in seen THEN KeepFirst(Tail(rows), seen)
    ELSE <<Head(rows)>> \o KeepFirst(Tail(rows), seen \cup {Head(rows)})

\* df.drop_duplicates(): a new table
drop_duplicates(d) == DataFrame(d.columns, KeepFirst(d.rows, {}))

\* df[col] = cells: the column replaced where it stands, or added last.
SetColumn(d, col, cells) ==
    DataFrame(IF col \in Range(d.columns) THEN d.columns ELSE Append(d.columns, col),
              [i \in 1..Len(d.rows) |->
                  [c \in Range(d.columns) \cup {col} |->
                      IF c = col THEN cells[i] ELSE d.rows[i][c]]])

\* getitem that drops the rows the projection made equal
getitem_dedup(d, cols) ==
    IF d.kind = "None" THEN Raise("TypeError", d, <<>>)
    ELSE IF ~HasColumns(d, cols) THEN Raise("KeyError", d, <<>>)
    ELSE Return(drop_duplicates(
                    DataFrame(cols,
                              [i \in 1..Len(d.rows) |->
                                  [c \in Range(cols) |-> d.rows[i][c]]])), <<>>)

\* df[cols] with a list of names: a new table of exactly those columns in
\* the order of the list, every row kept in place.
getitem(d, cols) ==
    IF d.kind = "None" THEN Raise("TypeError", d, <<>>)
    ELSE IF ~HasColumns(d, cols) THEN Raise("KeyError", d, <<>>)
    ELSE Return(DataFrame(cols,
                          [i \in 1..Len(d.rows) |->
                              [c \in Range(cols) |-> d.rows[i][c]]]), <<>>)

\* Whether series > number is defined on a cell: text and datetimes do
\* not compare with a number (TypeError).
Comparable(c) == c.kind \in {"int", "float", "nan", "bool"}

\* Greater with >= for >
GreaterOrEqual(c, x) == c.kind \in {"int", "float", "bool"} /\ c.n >= x

\* cell > number: a missing value compares False.
Greater(c, x) == c.kind \in {"int", "float", "bool"} /\ c.n > x

\* series.sum() of a column of bools
RECURSIVE CountTrue(_)
CountTrue(cells) ==
    IF cells = <<>> THEN 0
    ELSE (IF Head(cells).n = 1 THEN 1 ELSE 0) + CountTrue(Tail(cells))

----------------------------------------------------------------------------
(* scripts/data_preparation.py *)

\* critical_columns without its second name
critical_columns_first == <<"Max_PM10">>

critical_columns == <<"Max_PM10", "Avg_PM10_24Hour">>

columns_of_interest ==
    <<"SiteName", "Max_PM10", "Max_PM10_datetime", "Max_ASPD",
      "Max_ASPD_Direction", "Avg_PM10_24Hour">>

datetime_columns == <<"Yesterday", "Installed", "Max_PM10_datetime">>

threshold == 100

\* except Exception in load_data
LoadCatchesAll(e) == TRUE

\* except FileNotFoundError: the one exception load_data handles
LoadCatches(e) == e = "FileNotFoundError"

load_data(f) ==
    LET r == read_csv(f)
    IN  IF r.exc = "none"
        THEN Return(r.val,
                    <<Line("Data Loaded Successfully!", "", <<>>),
                      Line("Shape", "", shape(r.val)),
                      Line("Columns", "", <<Len(r.val.columns)>>)>>)
        ELSE IF LoadCatches(r.exc)
        THEN Return(None, <<Line("File not found", "data_path", <<>>)>>)
        ELSE r

clean_data(d) ==
    LET r == dropna(d, critical_columns)
    IN  IF r.exc # "none" THEN r
        ELSE LET c == drop_duplicates(r.val)
             IN  Return(c, <<Line("Cleaned Data Shape", "", shape(c))>>)

\* The loop of convert_datetime_columns: each column assigned in turn on
\* the caller's table; a name that is no column raises KeyError with the
\* earlier columns already converted.
RECURSIVE ConvertLoop(_, _)
ConvertLoop(d, cols) ==
    IF cols = <<>> THEN Return(d, <<>>)
    ELSE IF d.kind = "None" THEN Raise("TypeError", d, <<>>)
    ELSE IF Head(cols) \notin Range(d.columns) THEN Raise("KeyError", d, <<>>)
    ELSE ConvertLoop(
            SetColumn(d, Head(cols),
                      [i \in 1..Len(d.rows) |-> to_datetime(d.rows[i][Head(cols)])]),
            Tail(cols))

convert_datetime_columns(d, cols) ==
    LET r == ConvertLoop(d, cols)
    IN  IF r.exc # "none" THEN r
        ELSE Return(r.val, <<Line("Converted columns to datetime format", "", <<Len(cols)>>)>>)

identify_high_impact_events(d, pollutant_column, thr) ==
    IF d.kind = "None" THEN Raise("TypeError", d, <<>>)
    ELSE IF pollutant_column \notin Range(d.columns) THEN Raise("KeyError", d, <<>>)
    ELSE IF \E i \in 1..Len(d.rows) : ~Comparable(d.rows[i][pollutant_column])
    THEN Raise("TypeError", d, <<>>)
    ELSE LET flags == [i \in 1..Len(d.rows) |->
                          Bool(Greater(d.rows[i][pollutant_column], thr))]
         IN  Return(SetColumn(d, "High Impact", flags),
                    <<Line("Total High Impact Events", "", <<CountTrue(flags)>>)>>)

\* except FileNotFoundError in save_cleaned_data
SaveCatchesNotFound(e) == e = "FileNotFoundError"

\* except Exception: every failure of the write is handled
SaveCatches(e) == TRUE

\* save_cleaned_data on a disk that answers the write with outcome: the
\* result of the call and the output file afterwards.
save_cleaned_data(d, outcome, old) ==
    LET w == to_csv(d, outcome, old)
    IN  IF w.exc = "none"
        THEN [exc |-> "none", val |-> None, disk |-> w.disk,
              out |-> <<Line("Cleaned data saved to", "output_path", <<>>)>>]
        ELSE IF SaveCatches(w.exc)
        THEN [exc |-> "none", val |-> None, disk |-> w.disk,
              out |-> <<Line("Error saving file", w.exc, <<>>)>>]
        ELSE [exc |-> w.exc, val |-> None, disk |-> w.disk, out |-> <<>>]

\* the script without its check of the loaded table
is_anything(d) == TRUE

\* if df is not None:
is_not_None(d) == d.kind # "None"

----------------------------------------------------------------------------
(* The entry point: the script's steps, one action each.  pc names the     *)
(* step about to run; "done" is the end of the script and "crashed" an     *)
(* exception that escaped it.                                              *)

\* Every sequence over S of length at most n
SeqsUpTo(S, n) == UNION {[1..k -> S] : k \in 0..n}

\* Texts of the input fields
Txt_A       == <<"A">>
Txt_N       == <<"N">>
Txt_5       == <<"5">>
Txt_80      == <<"8", "0">>
Txt_100     == <<"1", "0", "0">>
Txt_120     == <<"1", "2", "0">>
Txt_na      == <<"n", "/", "a">>
Txt_soon    == <<"s", "o", "o", "n">>
Txt_Jan15   == <<"2", "0", "2", "4", "-", "0", "1", "-", "1", "5">>
Txt_Jan14   == <<"2", "0", "2", "4", "-", "0", "1", "-", "1", "4">>
Txt_Feb30   == <<"2", "0", "2", "0", "-", "0", "2", "-", "3", "0">>
Txt_Mar01   == <<"2", "0", "2", "0", "-", "0", "3", "-", "0", "1">>

FullHeader ==
    <<"SiteName", "Max_PM10", "Max_PM10_datetime", "Max_ASPD",
      "Max_ASPD_Direction", "Avg_PM10_24Hour", "Yesterday", "Installed">>

\* header without the column col
Without(header, col) == SelectSeq(header, LAMBDA c : c # col)

\* Headers of the input files: the full one, and one lacking a critical
\* column, a datetime column, a column of interest.
Headers ==
    {FullHeader, Without(FullHeader, "Avg_PM10_24Hour"),
     Without(FullHeader, "Installed"), Without(FullHeader, "Max_ASPD")}

\* The records a monitor file may hold, by column name
Records ==
    {[c \in Range(FullHeader) |->
        CASE c = "SiteName"           -> Txt_A
          [] c = "Max_PM10"           -> pm
          [] c = "Max_PM10_datetime"  -> at
          [] c = "Max_ASPD"           -> Txt_5
          [] c = "Max_ASPD_Direction" -> Txt_N
          [] c = "Avg_PM10_24Hour"    -> avg
          [] c = "Yesterday"          -> Txt_Jan14
          [] c = "Installed"          -> inst] :
        pm \in {Txt_na, Txt_100, Txt_120}, at \in {Txt_Jan15},
        avg \in {<<>>, Txt_80}, inst \in {Txt_Feb30, Txt_Mar01}}

\* The data lines of a file with the given header
LinesOf(header) == {[j \in 1..Len(header) |-> r[header[j]]] : r \in Records}

InputFiles ==
    {[state |-> st, header |-> <<>>, lines |-> <<>>] :
        st \in {"absent", "denied", "empty", "malformed"}}
    \cup
    UNION {{[state |-> "ok", header |-> h, lines |-> ls] :
                ls \in SeqsUpTo(LinesOf(h), MaxFileRows)} : h \in Headers}

NoArgs == [columns |-> <<>>, column |-> "", threshold |-> 0]

Init ==
    /\ pc = "load"
    /\ file \in InputFiles
    /\ df = None
    /\ ret = None
    /\ ret2 = None
    /\ exc = "none"
    /\ disk = NoFile
    /\ stdout = <<>>
    /\ trace = <<>>
    /\ nLoaded = 0
    /\ nCleaned = 0
    /\ arg = None
    /\ args = [columns |-> datetime_columns, column |-> "Max_PM10",
               threshold |-> threshold]

\* A step of the script that called a function with result r: the script
\* goes on at next with df bound to the result, or ends in the exception
\* with df the table as the call left it.
Bind(r, next) ==
    /\ stdout' = stdout \o r.out
    /\ ret' = IF r.exc = "none" THEN r.val ELSE ret
    /\ df' = r.val
    /\ exc' = r.exc
    /\ pc' = IF r.exc = "none" THEN next ELSE "crashed"

\* df = load_data(data_path); if df is not None: ...
Load ==
    /\ pc = "load"
    /\ trace' = Append(trace, "load")
    /\ LET r == load_data(file)
       IN  /\ Bind(r, IF is_not_None(r.val) THEN "clean" ELSE "done")
           /\ nLoaded' = Len(r.val.rows)
    /\ UNCHANGED <<file, ret2, disk, nCleaned, arg, args>>

\* df = clean_data(df)
Clean ==
    /\ pc = "clean"
    /\ trace' = Append(trace, "clean")
    /\ LET r == clean_data(df)
       IN  /\ Bind(r, "convert")
           /\ nCleaned' = IF r.exc = "none" THEN Len(r.val.rows) ELSE nCleaned
    /\ UNCHANGED <<file, ret2, disk, nLoaded, arg, args>>

\* df = convert_datetime_columns(df, datetime_columns)
Convert ==
    /\ pc = "convert"
    /\ trace' = Append(trace, "convert")
    /\ Bind(convert_datetime_columns(df, args.columns), "project")
    /\ UNCHANGED <<file, ret2, disk, nLoaded, nCleaned, arg, args>>

\* df = df[columns_of_interest]
Project ==
    /\ pc = "project"
    /\ trace' = Append(trace, "project")
    /\ Bind(getitem(df, columns_of_interest), "flag")
    /\ UNCHANGED <<file, ret2, disk, nLoaded, nCleaned, arg, args>>

\* df = identify_high_impact_events(df, pollutant_column='Max_PM10', threshold=threshold)
Flag ==
    /\ pc = "flag"
    /\ trace' = Append(trace, "flag")
    /\ Bind(identify_high_impact_events(df, args.column, args.threshold), "save")
    /\ UNCHANGED <<file, ret2, disk, nLoaded, nCleaned, arg, args>>

\* save_cleaned_data(df, output_path): the disk answers the write in one
\* of WriteOutcomes; the script ends after it.
Save ==
    /\ pc = "save"
    /\ trace' = Append(trace, "save")
    /\ \E outcome \in WriteOutcomes :
         LET r == save_cleaned_data(df, outcome, disk)
         IN  /\ stdout' = stdout \o r.out
             /\ ret' = r.val
             /\ exc' = r.exc
             /\ disk' = r.disk
             /\ pc' = IF r.exc = "none" THEN "done" ELSE "crashed"
    /\ UNCHANGED <<file, df, ret2, nLoaded, nCleaned, arg, args>>

Next == Load \/ Clean \/ Convert \/ Project \/ Flag \/ Save

Spec == Init /\ [][Next]_vars

----------------------------------------------------------------------------
(* The functions called directly, each on every table of a bounded set.    *)
(* pc is "call" before the call and "returned" or "raised" after it; arg   *)
(* keeps the table as it was passed, df is the caller's table (the one a   *)
(* function that assigns columns changes in place), ret the value          *)
(* returned.                                                               *)

\* Every table with the given columns and at most MaxRows rows drawn from
\* the rows of full restricted to those columns.
TablesOver(columns, full) ==
    {DataFrame(columns, rs) :
        rs \in SeqsUpTo({[c \in Range(columns) |-> r[c]] : r \in full}, MaxRows)}

InitCall(tables, arguments) ==
    /\ pc = "call"
    /\ df \in tables
    /\ arg = df
    /\ args \in arguments
    /\ file = NoFile
    /\ ret = None
    /\ ret2 = None
    /\ exc = "none"
    /\ disk = NoFile
    /\ stdout = <<>>
    /\ trace = <<>>
    /\ nLoaded = 0
    /\ nCleaned = 0

\* The caller after a call with result r; inplace says the function works
\* on the caller's table, which then holds what the call left in it.
Called(r, inplace, after) ==
    /\ stdout' = stdout \o r.out
    /\ exc' = r.exc
    /\ pc' = IF r.exc = "none" THEN after ELSE "raised"
    /\ df' = IF inplace THEN r.val ELSE df
    /\ UNCHANGED <<file, disk, trace, nLoaded, nCleaned, arg, args>>

(* clean_data(df), and clean_data of its result *)

CleanRows ==
    {[c \in {"SiteName", "Max_PM10", "Avg_PM10_24Hour"} |->
        CASE c = "SiteName" -> site
          [] c = "Max_PM10" -> pm
          [] OTHER          -> avg] :
        site \in {Str(Txt_A), NaN},
        pm   \in {NaN, Float64(50), Float64(120)},
        avg  \in {NaN, Float64(80)}}

CleanTables ==
    TablesOver(<<"SiteName", "Max_PM10", "Avg_PM10_24Hour">>, CleanRows)
    \cup TablesOver(<<"Avg_PM10_24Hour", "Max_PM10">>, CleanRows)
    \cup TablesOver(<<"SiteName", "Max_PM10">>, CleanRows)
    \cup TablesOver(<<"SiteName">>, CleanRows)

InitClean == InitCall(CleanTables, {NoArgs})

CallClean ==
    /\ pc = "call"
    /\ LET r == clean_data(df)
       IN  /\ Called(r, FALSE, "returned")
           /\ ret' = IF r.exc = "none" THEN r.val ELSE ret
           /\ ret2' = ret2

CallCleanAgain ==
    /\ pc = "returned"
    /\ LET r == clean_data(ret)
       IN  /\ Called(r, FALSE, "returned2")
           /\ ret2' = IF r.exc = "none" THEN r.val ELSE ret2
           /\ ret' = ret

NextClean == CallClean \/ CallCleanAgain

SpecClean == InitClean /\ [][NextClean]_vars

(* identify_high_impact_events(df, pollutant_column, threshold) *)

FlagRows ==
    {[c \in {"SiteName", "Max_PM10"} |->
        IF c = "SiteName" THEN site ELSE pm] :
        site \in {Str(Txt_A), NaN},
        pm   \in {NaN, Float64(50), Float64(100), Float64(120)}}

FlagTables == TablesOver(<<"SiteName", "Max_PM10">>, FlagRows)

FlagArgs ==
    {[columns |-> <<>>, column |-> col, threshold |-> thr] :
        col \in {"Max_PM10", "SiteName", "Max_PM25"}, thr \in {50, 100}}

InitFlag == InitCall(FlagTables, FlagArgs)

CallFlag ==
    /\ pc = "call"
    /\ LET r == identify_high_impact_events(df, args.column, args.threshold)
       IN  /\ Called(r, TRUE, "returned")
           /\ ret' = IF r.exc = "none" THEN r.val ELSE ret
           /\ ret2' = ret2

NextFlag == CallFlag

SpecFlag == InitFlag /\ [][NextFlag]_vars

(* convert_datetime_columns(df, datetime_columns) *)

ConvertRows ==
    {[c \in {"Installed", "Max_PM10"} |->
        IF c = "Installed" THEN inst ELSE pm] :
        inst \in {Str(Txt_Mar01), Str(Txt_Feb30), Str(Txt_soon), NaN},
        pm   \in {Float64(120), NaN}}

ConvertTables == TablesOver(<<"Installed", "Max_PM10">>, ConvertRows)

ConvertArgs ==
    {[columns |-> cols, column |-> "", threshold |-> 0] :
        cols \in {<<>>, <<"Installed">>, <<"Max_PM10", "Installed">>,
                  <<"Installed", "Yesterday">>}}

InitConvert == InitCall(ConvertTables, ConvertArgs)

CallConvert ==
    /\ pc = "call"
    /\ LET r == convert_datetime_columns(df, args.columns)
       IN  /\ Called(r, TRUE, "returned")
           /\ ret' = IF r.exc = "none" THEN r.val ELSE ret
           /\ ret2' = ret2

NextConvert == CallConvert

SpecConvert == InitConvert /\ [][NextConvert]_vars

----------------------------------------------------------------------------
(* The claims.  They name the columns, the steps and the messages          *)
(* themselves, and read the calls' arguments and results from the state.   *)

HasCritical(d) == {"Max_PM10", "Avg_PM10_24Hour"} \subseteq Range(d.columns)

Survives(r) == ~isna(r["Max_PM10"]) /\ ~isna(r["Avg_PM10_24Hour"])

Occurrences(rows, r) == Cardinality({i \in 1..Len(rows) : rows[i] = r})

FirstIndex(rows, r) == CHOOSE i \in 1..Len(rows) :
                           rows[i] = r /\ \A k \in 1..(i - 1) : rows[k] # r

IsPrefix(s, t) == Len(s) <= Len(t) /\ \A i \in 1..Len(s) : s[i] = t[i]

IndexOf(header, col) == CHOOSE j \in 1..Len(header) : header[j] = col

AllSteps == <<"load", "clean", "convert", "project", "flag", "save">>

\* C1: on a table with both critical columns clean_data returns the same
\* columns and exactly the rows with neither Max_PM10 nor Avg_PM10_24Hour
\* missing, each distinct one once, in the order of their first
\* occurrences; so two identical rows collapse to one.
C1_CleanKeepsEachSurvivorOnce ==
    (pc \in {"returned", "returned2"} /\ HasCritical(arg)) =>
        /\ ret.kind = "DataFrame"
        /\ ret.columns = arg.columns
        /\ \A i \in 1..Len(ret.rows) :
              /\ Survives(ret.rows[i])
              /\ \E j \in 1..Len(arg.rows) : arg.rows[j] = ret.rows[i]
        /\ \A j \in 1..Len(arg.rows) :
              Survives(arg.rows[j]) => Occurrences(ret.rows, arg.rows[j]) = 1
        /\ \A i, j \in 1..Len(ret.rows) :
              i < j => FirstIndex(arg.rows, ret.rows[i]) < FirstIndex(arg.rows, ret.rows[j])

\* a table of three rows, two of them identical survivors and one with a
\* missing critical value, cleaned to one row
C1_Witness ==
    /\ pc = "returned"
    /\ HasCritical(arg)
    /\ Len(arg.rows) = 3
    /\ \E i, j, k \in 1..3 :
          /\ i < j
          /\ arg.rows[i] = arg.rows[j]
          /\ Survives(arg.rows[i])
          /\ ~Survives(arg.rows[k])
    /\ Len(ret.rows) = 1

\* C2: after identify_high_impact_events every row carries a boolean High
\* Impact: true exactly when its pollutant value is a number strictly
\* above the threshold, false when the value is missing; a numeric
\* pollutant column always gets it.
C2_FlagIsStrictlyAboveThreshold ==
    /\ pc = "returned" =>
          /\ "High Impact" \in Range(ret.columns)
          /\ Len(ret.rows) = Len(arg.rows)
          /\ \A i \in 1..Len(ret.rows) :
                LET v == arg.rows[i][args.column]
                    f == ret.rows[i]["High Impact"]
                IN  /\ f.kind = "bool"
                    /\ f.n \in {0, 1}
                    /\ ~isna(v) => (f.n = 1 <=> v.n > args.threshold)
                    /\ isna(v) => f.n = 0
    /\ (pc # "call" /\ args.column = "Max_PM10") => pc = "returned"

\* a table with a value equal to the threshold (not flagged), a missing
\* value (not flagged) and a value above the threshold (flagged)
C2_Witness ==
    /\ pc = "returned"
    /\ args.column = "Max_PM10"
    /\ \E i, j, k \in 1..Len(ret.rows) :
          /\ arg.rows[i]["Max_PM10"] = Float64(args.threshold)
          /\ ret.rows[i]["High Impact"] = Bool(FALSE)
          /\ arg.rows[j]["Max_PM10"] = NaN
          /\ ret.rows[j]["High Impact"] = Bool(FALSE)
          /\ arg.rows[k]["Max_PM10"].n > args.threshold
          /\ ret.rows[k]["High Impact"] = Bool(TRUE)

\* C3: the steps run in the order load, clean, convert, project, flag,
\* save, each at most once and only after the one before it; when the
\* load gives no table the run ends there: no later step, no output file.
C3_StepsRunInOrder ==
    /\ IsPrefix(trace, AllSteps)
    /\ \A k \in 1..6 : pc = AllSteps[k] => (Len(trace) = k - 1 /\ exc = "none")
    /\ (trace # <<>> /\ df = None) =>
          /\ trace = <<"load">>
          /\ pc \in {"done", "crashed"}
          /\ disk = NoFile
    /\ disk # NoFile => trace = AllSteps
    /\ pc = "done" => (trace = <<"load">> \/ trace = AllSteps)

\* a complete run that wrote its output
C3_Witness == pc = "done" /\ trace = AllSteps /\ disk.state = "ok" /\ nLoaded = 2

\* C4: load_data on a path with no file returns None and nothing escapes;
\* any other failure of the read escapes to the caller.
C4_LoadCatchesOnlyFileNotFound ==
    trace # <<>> =>
        /\ file.state = "absent" =>
              /\ exc = "none" /\ ret = None /\ df = None /\ pc = "done"
              /\ stdout = <<Line("File not found", "data_path", <<>>)>>
        /\ file.state = "denied"    => (pc = "crashed" /\ exc = "PermissionError")
        /\ file.state = "empty"     => (pc = "crashed" /\ exc = "EmptyDataError")
        /\ file.state = "malformed" => (pc = "crashed" /\ exc = "ParserError")
        /\ file.state = "ok"        => (exc = "none" => df # None)

\* the load of a missing file, returned
C4_Witness == file.state = "absent" /\ trace = <<"load">> /\ pc = "done"

\* C5: save_cleaned_data never raises: whatever the write did, the call
\* returns None and the script ends normally, the failure only printed.
C5_SaveNeverRaises ==
    Len(trace) = 6 =>
        /\ pc = "done"
        /\ exc = "none"
        /\ ret = None
        /\ LET last == stdout[Len(stdout)]
           IN  IF disk.state = "ok"
               THEN last = Line("Cleaned data saved to", "output_path", <<>>)
               ELSE /\ last.text = "Error saving file"
                    /\ last.name \in {"PermissionError", "FileNotFoundError", "OSError"}

\* a write that failed part way, the script ended normally
C5_Witness ==
    /\ pc = "done" /\ Len(trace) = 6 /\ disk.state = "partial"
    /\ stdout[Len(stdout)] = Line("Error saving file", "OSError", <<>>)

\* C6: cleaning is idempotent: clean_data of a cleaned table is that
\* table, and on a table with both critical columns neither call fails.
C6_CleanIsIdempotent ==
    /\ pc = "returned2" => ret2 = ret
    /\ pc = "raised" => (ret = None /\ ~HasCritical(arg))

\* a table that lost some but not all of its rows, cleaned again
C6_Witness ==
    /\ pc = "returned2"
    /\ Len(ret.rows) >= 1
    /\ Len(ret.rows) < Len(arg.rows)
    /\ Len(ret2.rows) = Len(ret.rows)

\* C7: the projection gives exactly the requested columns in the
\* requested order and the same rows in the same number and order, each
\* restricted to those columns, also when two of them become equal.
C7_ProjectionKeepsRows ==
    [][(pc = "project" /\ pc' = "flag") =>
          /\ df'.columns = <<"SiteName", "Max_PM10", "Max_PM10_datetime", "Max_ASPD",
                             "Max_ASPD_Direction", "Avg_PM10_24Hour">>
          /\ Len(df'.rows) = Len(df.rows)
          /\ \A i \in 1..Len(df.rows) :
                /\ DOMAIN df'.rows[i] = Range(df'.columns)
                /\ \A c \in Range(df'.columns) : df'.rows[i][c] = df.rows[i][c]]_vars

\* two rows that differed in a column left out, equal after the projection
C7_Witness ==
    /\ pc = "flag"
    /\ nCleaned = 2
    /\ Len(df.rows) = 2
    /\ df.rows[1] = df.rows[2]

\* C8: at the save step the rows to write are at most the cleaned rows,
\* which are at most the loaded rows; every row written has Max_PM10 and
\* Avg_PM10_24Hour and a High Impact value.
C8_OutputRowsAreCleanAndFlagged ==
    (pc = "save" \/ Len(trace) = 6) =>
        /\ Len(df.rows) <= nCleaned
        /\ nCleaned <= nLoaded
        /\ \A i \in 1..Len(df.rows) :
              /\ ~isna(df.rows[i]["Max_PM10"])
              /\ ~isna(df.rows[i]["Avg_PM10_24Hour"])
              /\ df.rows[i]["High Impact"].kind = "bool"
        /\ disk.state = "ok" => Len(disk.lines) = Len(df.rows)
        /\ disk.state \in {"ok", "partial"} =>
              /\ Len(disk.lines) <= nCleaned
              /\ \A i \in 1..Len(disk.lines) :
                    /\ disk.lines[i][IndexOf(disk.header, "Max_PM10")] \notin NaValues
                    /\ disk.lines[i][IndexOf(disk.header, "Avg_PM10_24Hour")] \notin NaValues
                    /\ disk.lines[i][IndexOf(disk.header, "High Impact")]
                          \in {TrueText, FalseText}

\* an output of one row from a file of two
C8_Witness ==
    /\ Len(trace) = 6
    /\ disk.state = "ok"
    /\ Len(disk.lines) = 1
    /\ nCleaned = 1
    /\ nLoaded = 2

\* C9: after convert_datetime_columns every cell of every designated
\* column is a datetime or NaT: a text that does not parse is NaT, none
\* is left as text, and the call fails on no cell, only on a name that is
\* no column.
C9_ConvertLeavesDatetimeOrNaT ==
    /\ pc = "returned" =>
          \A k \in 1..Len(args.columns) : \A i \in 1..Len(ret.rows) :
              LET was == arg.rows[i][args.columns[k]]
                  now == ret.rows[i][args.columns[k]]
              IN  /\ now.kind \in {"datetime", "NaT"}
                  /\ was \in {Str(Txt_Feb30), Str(Txt_soon), NaN} => now = NaT
                  /\ was = Str(Txt_Mar01) => now = Datetime(20200301, 0)
    /\ pc = "raised" =>
          /\ exc = "KeyError"
          /\ \E k \in 1..Len(args.columns) : args.columns[k] \notin Range(arg.columns)

\* a column with a text that parses and a text that does not, converted
C9_Witness ==
    /\ pc = "returned"
    /\ args.columns = <<"Installed">>
    /\ \E i, j \in 1..Len(ret.rows) :
          /\ arg.rows[i]["Installed"] = Str(Txt_soon)
          /\ ret.rows[i]["Installed"] = NaT
          /\ arg.rows[j]["Installed"] = Str(Txt_Mar01)
          /\ ret.rows[j]["Installed"].kind = "datetime"

\* C10, as stated: clean_data ends in no error on any table.
C10_CleanNeverFails == pc # "call" => (pc # "raised" /\ exc = "none")

\* C10, amended: clean_data returns a table, possibly empty, on every
\* table that has both critical columns; on a table that lacks one it
\* ends in a KeyError.
C10_CleanFailsOnlyWithoutCriticalColumn ==
    pc # "call" =>
        /\ HasCritical(arg) => (pc # "raised" /\ exc = "none" /\ ret.kind = "DataFrame")
        /\ ~HasCritical(arg) => (pc = "raised" /\ exc = "KeyError")

\* a table all of whose rows miss a critical value, cleaned to no rows
C10_Witness ==
    /\ pc = "returned"
    /\ Len(arg.rows) = 3
    /\ ret.kind = "DataFrame"
    /\ ret.rows = <<>>

====
